---------------------------- MODULE Spec2Model ----------------------------
(***************************************************************************)
(* Model of hooks/smart-router-enforcer.py, the UserPromptSubmit hook that *)
(* prints the Smart Router reminder.                                       *)
(*                                                                         *)
(* A Python str is a sequence of one-character strings.  A value decoded   *)
(* from JSON is a pair <<type, payload>> whose first component is the name *)
(* of its Python type.  One process run executes main() once; the steps of *)
(* main are the actions, pc is the position in main.                       *)
(*                                                                         *)
(* Asynchronous signals are not an input of the model: no action raises    *)
(* KeyboardInterrupt, whose handler (lines 183-185) exits with status 0.   *)
(***************************************************************************)
EXTENDS Integers, Sequences, FiniteSets, TLC

VARIABLES
    stdin,          \* content of standard input, fed to every run
    registryFile,   \* state of <project>/.claude/.cache/agent-registry.json
    registryFile0,  \* history: registryFile when the first run started
    run,            \* "first" or "second" invocation of the hook
    pc,             \* position in main (or in the classifier harness)
    input_data,     \* main: input_data
    user_prompt,    \* main: user_prompt; harness: the argument of is_task_prompt
    is_task,        \* value returned by is_task_prompt
    registry,       \* main: registry
    total_tools,    \* main: total_tools
    total_caps,     \* main: total_caps
    exc,            \* class of the exception in flight, "none" if none
    raisedIn,       \* history: function in which the exception in flight arose
    stdout,         \* what this run printed to sys.stdout, one entry per print
    stderr,         \* what this run printed to sys.stderr, one entry per message
    exit_status,    \* <<>> while running, <<n>> once the process ended with n
    calls,          \* history: the functions this run called, in order
    first_stdout    \* history: stdout of the first run, once it ended

vars == <<stdin, registryFile, registryFile0, run, pc, input_data, user_prompt,
          is_task, registry, total_tools, total_caps, exc, raisedIn, stdout,
          stderr, exit_status, calls, first_stdout>>

-----------------------------------------------------------------------------
(* Bounds of the input sets.                                               *)

\* Longest prompt given to the classifier, in pieces of PromptPieces.
MaxPieces == 3
\* Longest tool list of a capability in a registry file.
MaxTools == 2

-----------------------------------------------------------------------------
(* Python str operations used by is_task_prompt.                           *)

UpperChars == <<"A","B","C","D","E","F","G","H","I","J","K","L","M","N","O","P","Q","R","S","T","U","V","W","X","Y","Z">>
LowerChars == <<"a","b","c","d","e","f","g","h","i","j","k","l","m","n","o","p","q","r","s","t","u","v","w","x","y","z">>

\* str.lower() on one character of the model's alphabet.
LowerChar(c) ==
    IF \E i \in 1..Len(UpperChars) : UpperChars[i] = c
    THEN LowerChars[CHOOSE i \in 1..Len(UpperChars) : UpperChars[i] = c]
    ELSE c

\* prompt.lower(), line 115.
str_lower(s) == [i \in 1..Len(s) |-> LowerChar(s[i])]

\* str.isspace() on one character: what str.split() with no argument splits on.
IsSpace(c) == c \in {" ", "\t", "\n", "\r"}

\* `sub in s` on two str, line 119: the first start position from i on at
\* which sub occurs decides.
RECURSIVE FindFrom(_, _, _)
FindFrom(sub, s, i) ==
    IF i + Len(sub) - 1 > Len(s) THEN FALSE
    ELSE IF SubSeq(s, i, i + Len(sub) - 1) = sub THEN TRUE
    ELSE FindFrom(sub, s, i + 1)

str_contains(sub, s) == FindFrom(sub, s, 1)

\* s.split(), line 124: scan from position i with the words found so far and
\* the word being read; runs of whitespace separate words, no empty word.
RECURSIVE SplitFrom(_, _, _, _)
SplitFrom(s, i, words, cur) ==
    IF i > Len(s)
    THEN IF cur = <<>> THEN words ELSE Append(words, cur)
    ELSE IF IsSpace(s[i])
         THEN SplitFrom(s, i + 1, IF cur = <<>> THEN words ELSE Append(words, cur), <<>>)
         ELSE SplitFrom(s, i + 1, words, Append(cur, s[i]))

str_split(s) == SplitFrom(s, 1, <<>>, <<>>)

\* `x in words` on a list, line 126.
list_contains(x, words) == \E i \in 1..Len(words) : words[i] = x

-----------------------------------------------------------------------------
(* The classifier, lines 23-44 and 103-129.                                *)

TASK_TRIGGERS == <<
    <<"w","r","i","t","e"," ","t","e","s","t","s">>,
    <<"r","u","n"," ","t","e","s","t","s">>,
    <<"a","d","d"," ","t","e","s","t","s">>,
    <<"g","e","n","e","r","a","t","e"," ","t","e","s","t","s">>,
    <<"c","o","d","e"," ","r","e","v","i","e","w">>,
    <<"r","e","v","i","e","w"," ","c","o","d","e">>,
    <<"r","e","v","i","e","w"," ","t","h","i","s"," ","c","o","d","e">>,
    <<"r","e","v","i","e","w"," ","m","y"," ","c","o","d","e">>,
    <<"d","e","b","u","g"," ","t","h","i","s">>,
    <<"f","i","x"," ","t","h","i","s"," ","b","u","g">>,
    <<"f","i","x"," ","t","h","e"," ","e","r","r","o","r">>,
    <<"t","r","o","u","b","l","e","s","h","o","o","t">>,
    <<"b","u","i","l","d"," ","t","h","e">>,
    <<"b","u","i","l","d"," ","t","h","i","s">>,
    <<"i","m","p","l","e","m","e","n","t"," ","t","h","i","s">>,
    <<"i","m","p","l","e","m","e","n","t"," ","a">>,
    <<"c","r","e","a","t","e"," ","a"," ","n","e","w">>,
    <<"d","e","v","e","l","o","p"," ","a">>,
    <<"r","e","f","a","c","t","o","r"," ","t","h","i","s">>,
    <<"r","e","f","a","c","t","o","r"," ","t","h","e">>,
    <<"a","n","a","l","y","z","e"," ","t","h","i","s">>,
    <<"a","n","a","l","y","z","e"," ","t","h","e">>,
    <<"c","h","e","c","k"," ","t","h","i","s">>,
    <<"v","e","r","i","f","y"," ","t","h","i","s">>,
    <<"v","a","l","i","d","a","t","e"," ","t","h","e">>,
    <<"i","n","v","e","s","t","i","g","a","t","e"," ","t","h","i","s">>,
    <<"e","x","p","l","o","r","e"," ","t","h","e">>,
    <<"p","l","a","n"," ","t","h","e">>,
    <<"a","r","c","h","i","t","e","c","t"," ","t","h","i","s">>,
    <<"d","e","s","i","g","n"," ","t","h","e">>,
    <<"s","t","r","u","c","t","u","r","e"," ","t","h","e">>,
    <<"g","a","m","e"," ","d","e","v","e","l","o","p","m","e","n","t">>,
    <<"u","n","i","t","y"," ","p","r","o","j","e","c","t">>,
    <<"u","n","r","e","a","l"," ","e","n","g","i","n","e">>,
    <<"g","o","d","o","t"," ","p","r","o","j","e","c","t">>,
    <<"b","r","a","i","n","s","t","o","r","m">>,
    <<"t","h","i","n","k"," ","t","h","r","o","u","g","h">>,
    <<"h","e","l","p"," ","m","e"," ","d","e","s","i","g","n">>,
    <<"h","e","l","p"," ","m","e"," ","p","l","a","n">>
  >>

TASK_KEYWORDS_STRICT == <<
    <<"b","r","a","i","n","s","t","o","r","m">>,
    <<"t","r","o","u","b","l","e","s","h","o","o","t">>,
    <<"r","e","f","a","c","t","o","r">>,
    <<"d","e","b","u","g">>
  >>

\* for phrase in TASK_TRIGGERS: if phrase in prompt_lower: return True
RECURSIVE PhraseLoop(_, _)
PhraseLoop(prompt_lower, i) ==
    IF i > Len(TASK_TRIGGERS) THEN FALSE
    ELSE IF str_contains(TASK_TRIGGERS[i], prompt_lower) THEN TRUE
    ELSE PhraseLoop(prompt_lower, i + 1)

\* The mutant of KeywordHit: the keyword is looked up in the prompt, not in
\* the list of its words.
KeywordHitInPrompt(keyword, prompt_lower) == str_contains(keyword, prompt_lower)

\* words = prompt_lower.split() ... if keyword in words, lines 124-126.
KeywordHit(keyword, prompt_lower) == list_contains(keyword, str_split(prompt_lower))

\* for keyword in TASK_KEYWORDS_STRICT: if keyword in words: return True
RECURSIVE KeywordLoop(_, _)
KeywordLoop(prompt_lower, i) ==
    IF i > Len(TASK_KEYWORDS_STRICT) THEN FALSE
    ELSE IF KeywordHit(TASK_KEYWORDS_STRICT[i], prompt_lower) THEN TRUE
    ELSE KeywordLoop(prompt_lower, i + 1)

is_task_prompt(prompt) ==
    LET prompt_lower == str_lower(prompt)
    IN  IF PhraseLoop(prompt_lower, 1) THEN TRUE
        ELSE KeywordLoop(prompt_lower, 1)

-----------------------------------------------------------------------------
(* Prompts given to the classifier.                                        *)

\* Pieces the prompts are concatenated from.
PromptPieces == {
    <<"d","e","b","u","g">>,
    <<"g","i","n","g">>,
    <<" ">>,
    <<"t","h","i","s">>,
    <<"B","r","a","i","n","s","t","o","r","m">>,
    <<"i","n","g">>,
    <<"r","e","f","a","c","t","o","r">>,
    <<"t","r","o","u","b","l","e","s","h","o","o","t">>,
    <<"c","o","d","e">>,
    <<"r","e","v","i","e","w">>,
    <<"\t">>,
    <<"D","E","B","U","G">>
  }

\* Whole prompts added to the concatenations.
ExamplePrompts == {
    <<"p","l","e","a","s","e"," ","w","r","i","t","e"," ","t","e","s","t","s"," ","f","o","r"," ","t","h","i","s">>,
    <<"I"," ","l","o","v","e"," ","c","o","d","i","n","g">>,
    <<"l","e","t","'","s"," ","d","e","b","u","g">>,
    <<"h","e","l","p"," ","m","e">>,
    <<"F","i","x"," ","T","h","e"," ","E","r","r","o","r","\n","n","o","w">>
  }

RECURSIVE Concat(_)
Concat(ps) == IF ps = <<>> THEN <<>> ELSE Head(ps) \o Concat(Tail(ps))

Prompts ==
    { Concat(ps) : ps \in UNION { [1..n -> PromptPieces] : n \in 0..MaxPieces } }
        \cup ExamplePrompts

-----------------------------------------------------------------------------
(* Python values, as json.load produces them.                              *)

PyNone == <<"NoneType", "None">>
PyBool(b) == <<"bool", b>>
PyInt(n) == <<"int", n>>
PyStr(s) == <<"str", s>>
PyList(xs) == <<"list", xs>>
PyDict(f) == <<"dict", f>>
TypeOf(v) == v[1]
Payload(v) == v[2]

\* Truth value of a Python value: the tests `not user_prompt`, line 140, and
\* `not registry`, line 149.
Truthy(v) ==
    CASE TypeOf(v) = "NoneType" -> FALSE
      [] TypeOf(v) = "bool" -> Payload(v)
      [] TypeOf(v) = "int" -> Payload(v) # 0
      [] TypeOf(v) = "dict" -> DOMAIN Payload(v) # {}
      [] OTHER -> Len(Payload(v)) # 0

\* Whether len(v) is defined, and its value, line 154 and 155.
HasLen(v) == TypeOf(v) \in {"str", "list", "dict"}
py_len(v) ==
    IF TypeOf(v) = "dict" THEN Cardinality(DOMAIN Payload(v)) ELSE Len(Payload(v))

\* d.get(key, default) on a dict, lines 138 and 153.
dict_get(d, key, default) ==
    IF key \in DOMAIN Payload(d) THEN Payload(d)[key] ELSE default

\* The exception classes of the program and the base class of each.
BaseOf(cls) ==
    CASE cls = "JSONDecodeError" -> "ValueError"
      [] cls = "UnicodeDecodeError" -> "ValueError"
      [] cls = "ValueError" -> "Exception"
      [] cls = "PermissionError" -> "OSError"
      [] cls = "IsADirectoryError" -> "OSError"
      [] cls = "OSError" -> "Exception"
      [] cls = "AttributeError" -> "Exception"
      [] cls = "TypeError" -> "Exception"
      [] cls = "Exception" -> "BaseException"
      [] cls = "SystemExit" -> "BaseException"
      [] cls = "KeyboardInterrupt" -> "BaseException"
      [] OTHER -> "object"

RECURSIVE IsSubclass(_, _)
IsSubclass(cls, base) ==
    IF cls = base THEN TRUE
    ELSE IF cls \in {"BaseException", "object"} THEN FALSE
    ELSE IsSubclass(BaseOf(cls), base)

-----------------------------------------------------------------------------
(* Contents of standard input and of the registry file.                    *)

\* A text that is the JSON serialisation of v.
JsonText(v) == <<"json", v>>
\* A text that is not JSON.
MalformedText == <<"malformed", "{bad">>
\* Bytes that are not UTF-8.
UndecodableBytes == <<"undecodable", "\\xff">>

\* json.load(f), lines 61 and 135: the value, or the exception raised.
json_load(content) ==
    CASE content[1] = "json" -> <<"ok", content[2]>>
      [] content[1] = "malformed" -> <<"raise", "JSONDecodeError">>
      [] OTHER -> <<"raise", "UnicodeDecodeError">>

\* Prompts of the requests given to main.
MainPrompts == {
    <<"d","e","b","u","g">>,
    <<"I"," ","l","o","v","e"," ","c","o","d","i","n","g">>,
    <<"p","l","e","a","s","e"," ","w","r","i","t","e"," ","t","e","s","t","s">>,
    <<"B","r","a","i","n","s","t","o","r","m","i","n","g">>,
    <<"d","e","b","u","g","g","i","n","g">>,
    <<" "," ">>
  }

\* Values of the user_prompt field.
PromptValues ==
    { PyStr(p) : p \in MainPrompts \cup {<<>>} }
        \cup { PyNone, PyBool(FALSE), PyBool(TRUE), PyInt(0), PyInt(5),
               PyList(<<>>), PyList(<<PyStr(<<"d","e","b","u","g">>)>>),
               PyDict(<<>>) }

StdinInputs ==
    { JsonText(PyDict([k \in {"user_prompt"} |-> v])) : v \in PromptValues }
        \cup { JsonText(PyDict([k \in {"prompt"} |-> PyStr(<<"d","e","b","u","g">>)])),
               JsonText(PyDict(<<>>)),
               JsonText(PyNone), JsonText(PyInt(5)),
               JsonText(PyStr(<<"d","e","b","u","g">>)),
               JsonText(PyList(<<PyStr(<<"d","e","b","u","g">>)>>)),
               MalformedText, UndecodableBytes }

CapabilityNames == {"fs", "net"}
ToolNames == {"read", "write", "fetch"}

\* The tool lists of a capability: up to MaxTools tools, none listed twice.
ToolLists ==
    { PyList(ts) : ts \in
        { t \in UNION { [1..n -> ToolNames] : n \in 0..MaxTools } :
            \A i, j \in 1..Len(t) : t[i] = t[j] => i = j } }

\* Values a capability is mapped to: tool lists, and values of other types.
CapabilityValues ==
    ToolLists \cup { PyInt(5), PyNone, PyStr(<<"a","b">>),
                     PyDict([k \in {"read"} |-> PyInt(1)]) }

CapabilityMaps ==
    { PyDict(m) : m \in UNION { [S -> CapabilityValues] : S \in SUBSET CapabilityNames } }

\* Documents found in the registry file.
RegistryDocuments ==
    { PyDict([k \in {"capabilities"} |-> c]) :
        c \in CapabilityMaps \cup { PyNone, PyInt(5),
                                    PyList(<<PyStr(<<"f","s">>)>>) } }
        \cup CapabilityMaps
        \cup { PyDict([k \in {"version"} |-> PyInt(1)]),
               PyNone, PyBool(FALSE), PyBool(TRUE), PyInt(0), PyInt(7),
               PyStr(<<>>), PyStr(<<"x">>), PyList(<<>>), PyList(<<PyInt(1)>>) }

\* States of the registry path: no such file; its directory not searchable;
\* a file that cannot be opened for reading; a directory; a readable file.
RegistryFiles ==
    { <<"missing", "none">>, <<"dir_denied", "none">>, <<"unreadable", "none">>,
      <<"is_directory", "none">>,
      <<"file", MalformedText>>, <<"file", UndecodableBytes>> }
        \cup { <<"file", JsonText(d)>> : d \in RegistryDocuments }

-----------------------------------------------------------------------------
(* load_registry, lines 47-70.                                             *)

Returned(v, diagnostics) == <<"return", v, diagnostics>>
Raised(cls) == <<"raise", cls, <<>> >>

\* registry_path.exists(), line 56: pathlib's stat of the path.  A directory
\* that may not be searched makes stat fail with EACCES, which Path.exists
\* re-raises as PermissionError up to Python 3.13 and answers False from 3.14.
path_exists(file) ==
    CASE file[1] = "missing" -> {<<"ok", FALSE>>}
      [] file[1] = "dir_denied" -> {<<"raise", "PermissionError">>, <<"ok", FALSE>>}
      [] OTHER -> {<<"ok", TRUE>>}

\* with open(registry_path, 'r') as f: return json.load(f), lines 60-61.
open_and_load(file) ==
    CASE file[1] = "unreadable" -> <<"raise", "PermissionError">>
      [] file[1] = "is_directory" -> <<"raise", "IsADirectoryError">>
      [] OTHER -> json_load(file[2])

\* The except clauses of load_registry, lines 62-70, tried in order.
registry_except(cls) ==
    IF IsSubclass(cls, "JSONDecodeError")
    THEN Returned(PyNone, <<"Smart Router: Registry corrupted">>)
    ELSE IF IsSubclass(cls, "PermissionError")
    THEN Returned(PyNone, <<"Smart Router: Cannot read registry (permission denied)">>)
    ELSE IF IsSubclass(cls, "OSError")
    THEN Returned(PyNone, <<"Smart Router: Cannot read registry">>)
    ELSE Raised(cls)

\* The mutant of load_registry: every registry is reported absent.
load_registry_absent(file) == { Returned(PyNone, <<>>) }

\* The outcomes of load_registry() on a registry path in state file: the
\* value returned with the diagnostics printed to stderr, or the exception
\* that leaves the function.
load_registry(file) ==
    { IF e[1] = "raise" THEN Raised(e[2])
      ELSE IF ~e[2] THEN Returned(PyNone, <<>>)
      ELSE LET r == open_and_load(file)
           IN  IF r[1] = "ok" THEN Returned(r[2], <<>>) ELSE registry_except(r[2])
      : e \in path_exists(file) }

-----------------------------------------------------------------------------
(* main, lines 132-191.                                                    *)

\* reminder.strip(), lines 158-176, line by line.
Reminder(caps, tools) == <<
    "<U+00F0><U+0178><U+017D><U+00AF> **Smart Router Early Reminder**",
    "",
    "Before I start working on this task, let me check Smart Router first.",
    "",
    "**Why check Smart Router:**",
    "- Registry has " \o ToString(caps) \o " capabilities and "
        \o ToString(tools) \o " tools available",
    "- I might not know about all your installed tools",
    "- Smart Router can show me the best options for this task",
    "",
    "**I should:**",
    "1. Use the 'smart-router' skill to see available tools",
    "2. Let it rank options based on context and your preferences",
    "3. Then proceed with the best tool",
    "",
    "Let me check Smart Router first..."
  >>

\* sum(len(tools) for tools in capabilities.values()), line 154, over the
\* keys not yet visited.
RECURSIVE SumLen(_, _)
SumLen(capabilities, keys) ==
    IF keys = {} THEN 0
    ELSE LET k == CHOOSE x \in keys : TRUE
         IN  py_len(Payload(capabilities)[k]) + SumLen(capabilities, keys \ {k})

\* The mutant of count_tools: the capabilities are counted, not their tools.
count_tools_as_capabilities(capabilities) == py_len(capabilities)

count_tools(capabilities) == SumLen(capabilities, DOMAIN Payload(capabilities))

\* The mutant of Handler: main without its `except Exception` clause.
HandlerWithoutCatchAll(cls) ==
    IF IsSubclass(cls, "JSONDecodeError") THEN "JSONDecodeError"
    ELSE IF IsSubclass(cls, "KeyboardInterrupt") THEN "KeyboardInterrupt"
    ELSE "none"

\* The except clause of main that takes an exception of class cls raised in
\* the try block, lines 179-186, "none" when no clause matches.
Handler(cls) ==
    IF IsSubclass(cls, "JSONDecodeError") THEN "JSONDecodeError"
    ELSE IF IsSubclass(cls, "KeyboardInterrupt") THEN "KeyboardInterrupt"
    ELSE IF IsSubclass(cls, "Exception") THEN "Exception"
    ELSE "none"

Unset == <<"unset", "unset">>

\* An exception of class cls arises in function fn, called from the try block.
Raise(cls, fn) == pc' = "except" /\ exc' = cls /\ raisedIn' = fn

\* input_data = json.load(sys.stdin), line 135.
ReadInput ==
    /\ pc = "start"
    /\ calls' = Append(calls, "json.load")
    /\ LET r == json_load(stdin)
       IN  IF r[1] = "ok"
           THEN /\ input_data' = r[2]
                /\ pc' = "get_prompt"
                /\ UNCHANGED <<exc, raisedIn>>
           ELSE /\ Raise(r[2], "json.load")
                /\ UNCHANGED input_data
    /\ UNCHANGED <<stdin, registryFile, registryFile0, run, user_prompt, is_task,
                   registry, total_tools, total_caps, stdout, stderr,
                   exit_status, first_stdout>>

\* user_prompt = input_data.get('user_prompt', ''), line 138.
GetUserPrompt ==
    /\ pc = "get_prompt"
    /\ IF TypeOf(input_data) = "dict"
       THEN /\ user_prompt' = dict_get(input_data, "user_prompt", PyStr(<<>>))
            /\ pc' = "check_prompt"
            /\ UNCHANGED <<exc, raisedIn>>
       ELSE /\ Raise("AttributeError", "main")
            /\ UNCHANGED user_prompt
    /\ UNCHANGED <<stdin, registryFile, registryFile0, run, input_data, is_task,
                   registry, total_tools, total_caps, stdout, stderr,
                   exit_status, calls, first_stdout>>

\* if not user_prompt: sys.exit(0), lines 140-141.
CheckPrompt ==
    /\ pc = "check_prompt"
    /\ IF ~Truthy(user_prompt)
       THEN Raise("SystemExit", "main")
       ELSE pc' = "classify" /\ UNCHANGED <<exc, raisedIn>>
    /\ UNCHANGED <<stdin, registryFile, registryFile0, run, input_data,
                   user_prompt, is_task, registry, total_tools, total_caps,
                   stdout, stderr, exit_status, calls, first_stdout>>

\* The mutant of Classify: the sys.exit(0) of line 145 is missing.
ClassifyWithoutExit ==
    /\ pc = "classify"
    /\ calls' = Append(calls, "is_task_prompt")
    /\ IF TypeOf(user_prompt) # "str"
       THEN /\ Raise("AttributeError", "is_task_prompt")
            /\ UNCHANGED is_task
       ELSE /\ is_task' = is_task_prompt(Payload(user_prompt))
            /\ pc' = "load_registry"
            /\ UNCHANGED <<exc, raisedIn>>
    /\ UNCHANGED <<stdin, registryFile, registryFile0, run, input_data,
                   user_prompt, registry, total_tools, total_caps, stdout,
                   stderr, exit_status, first_stdout>>

\* if not is_task_prompt(user_prompt): sys.exit(0), lines 144-145.  On a
\* prompt that is no str, prompt.lower() raises AttributeError, line 115.
Classify ==
    /\ pc = "classify"
    /\ calls' = Append(calls, "is_task_prompt")
    /\ IF TypeOf(user_prompt) # "str"
       THEN /\ Raise("AttributeError", "is_task_prompt")
            /\ UNCHANGED is_task
       ELSE /\ is_task' = is_task_prompt(Payload(user_prompt))
            /\ IF ~is_task'
               THEN Raise("SystemExit", "main")
               ELSE pc' = "load_registry" /\ UNCHANGED <<exc, raisedIn>>
    /\ UNCHANGED <<stdin, registryFile, registryFile0, run, input_data,
                   user_prompt, registry, total_tools, total_caps, stdout,
                   stderr, exit_status, first_stdout>>

\* The mutant of CallLoadRegistry: the registry is opened for writing too,
\* which truncates the file.
CallLoadRegistryTruncating ==
    /\ pc = "load_registry"
    /\ calls' = Append(calls, "load_registry")
    /\ \E o \in load_registry(registryFile) :
        /\ stderr' = stderr \o o[3]
        /\ IF o[1] = "return"
           THEN /\ registry' = o[2]
                /\ pc' = "check_registry"
                /\ UNCHANGED <<exc, raisedIn>>
           ELSE /\ Raise(o[2], "load_registry")
                /\ UNCHANGED registry
    /\ registryFile' = IF registryFile[1] = "file"
                       THEN <<"file", MalformedText>> ELSE registryFile
    /\ UNCHANGED <<stdin, registryFile0, run, input_data, user_prompt,
                   is_task, total_tools, total_caps, stdout, exit_status,
                   first_stdout>>

\* registry = load_registry(), line 148.
CallLoadRegistry ==
    /\ pc = "load_registry"
    /\ calls' = Append(calls, "load_registry")
    /\ \E o \in load_registry(registryFile) :
        /\ stderr' = stderr \o o[3]
        /\ IF o[1] = "return"
           THEN /\ registry' = o[2]
                /\ pc' = "check_registry"
                /\ UNCHANGED <<exc, raisedIn>>
           ELSE /\ Raise(o[2], "load_registry")
                /\ UNCHANGED registry
    /\ UNCHANGED <<stdin, registryFile, registryFile0, run, input_data,
                   user_prompt, is_task, total_tools, total_caps, stdout,
                   exit_status, first_stdout>>

\* if not registry: sys.exit(0), lines 149-150.
CheckRegistry ==
    /\ pc = "check_registry"
    /\ IF ~Truthy(registry)
       THEN Raise("SystemExit", "main")
       ELSE pc' = "count" /\ UNCHANGED <<exc, raisedIn>>
    /\ UNCHANGED <<stdin, registryFile, registryFile0, run, input_data,
                   user_prompt, is_task, registry, total_tools, total_caps,
                   stdout, stderr, exit_status, calls, first_stdout>>

\* Lines 153-155: capabilities = registry.get('capabilities', {}), then
\* total_tools, then total_caps.  registry.get needs a dict, .values() a
\* dict, len(tools) a value that has a length.
BuildCounts ==
    /\ pc = "count"
    /\ IF TypeOf(registry) # "dict"
       THEN /\ Raise("AttributeError", "main")
            /\ UNCHANGED <<total_tools, total_caps>>
       ELSE LET capabilities == dict_get(registry, "capabilities", PyDict(<<>>))
            IN  IF TypeOf(capabilities) # "dict"
                THEN /\ Raise("AttributeError", "main")
                     /\ UNCHANGED <<total_tools, total_caps>>
                ELSE IF \E k \in DOMAIN Payload(capabilities) :
                            ~HasLen(Payload(capabilities)[k])
                THEN /\ Raise("TypeError", "main")
                     /\ UNCHANGED <<total_tools, total_caps>>
                ELSE /\ total_tools' = count_tools(capabilities)
                     /\ total_caps' = py_len(capabilities)
                     /\ pc' = "print"
                     /\ UNCHANGED <<exc, raisedIn>>
    /\ UNCHANGED <<stdin, registryFile, registryFile0, run, input_data,
                   user_prompt, is_task, registry, stdout, stderr,
                   exit_status, calls, first_stdout>>

\* print(reminder.strip()), lines 158-176.
PrintReminder ==
    /\ pc = "print"
    /\ stdout' = Append(stdout, Reminder(total_caps, total_tools))
    /\ pc' = "printed"
    /\ UNCHANGED <<stdin, registryFile, registryFile0, run, input_data,
                   user_prompt, is_task, registry, total_tools, total_caps,
                   exc, raisedIn, stderr, exit_status, calls, first_stdout>>

\* sys.exit(0), line 177.
ExitAfterReminder ==
    /\ pc = "printed"
    /\ Raise("SystemExit", "main")
    /\ UNCHANGED <<stdin, registryFile, registryFile0, run, input_data,
                   user_prompt, is_task, registry, total_tools, total_caps,
                   stdout, stderr, exit_status, calls, first_stdout>>

\* The mutant of HandleJSONDecodeError: print without file=sys.stderr.
HandleJSONDecodeErrorOnStdout ==
    /\ pc = "except"
    /\ Handler(exc) = "JSONDecodeError"
    /\ stdout' = Append(stdout, <<"Smart Router: Invalid JSON input">>)
    /\ pc' = "propagate"
    /\ exc' = "SystemExit"
    /\ raisedIn' = "main"
    /\ UNCHANGED <<stdin, registryFile, registryFile0, run, input_data,
                   user_prompt, is_task, registry, total_tools, total_caps,
                   stderr, exit_status, calls, first_stdout>>

\* except json.JSONDecodeError, lines 179-182: the message on stderr, then
\* sys.exit(0), which leaves main.
HandleJSONDecodeError ==
    /\ pc = "except"
    /\ Handler(exc) = "JSONDecodeError"
    /\ stderr' = Append(stderr, "Smart Router: Invalid JSON input")
    /\ pc' = "propagate"
    /\ exc' = "SystemExit"
    /\ raisedIn' = "main"
    /\ UNCHANGED <<stdin, registryFile, registryFile0, run, input_data,
                   user_prompt, is_task, registry, total_tools, total_caps,
                   stdout, exit_status, calls, first_stdout>>

\* The mutant of HandleException: the message is printed without
\* file=sys.stderr.
HandleExceptionOnStdout ==
    /\ pc = "except"
    /\ Handler(exc) = "Exception"
    /\ stdout' = Append(stdout, <<"Smart Router hook error">>)
    /\ stderr' = Append(stderr, "Traceback")
    /\ pc' = "propagate"
    /\ exc' = "SystemExit"
    /\ raisedIn' = "main"
    /\ UNCHANGED <<stdin, registryFile, registryFile0, run, input_data,
                   user_prompt, is_task, registry, total_tools, total_caps,
                   exit_status, calls, first_stdout>>

\* except Exception, lines 186-191: the message and the traceback on stderr,
\* then sys.exit(0), which leaves main.
HandleException ==
    /\ pc = "except"
    /\ Handler(exc) = "Exception"
    /\ stderr' = stderr \o <<"Smart Router hook error", "Traceback">>
    /\ pc' = "propagate"
    /\ exc' = "SystemExit"
    /\ raisedIn' = "main"
    /\ UNCHANGED <<stdin, registryFile, registryFile0, run, input_data,
                   user_prompt, is_task, registry, total_tools, total_caps,
                   stdout, exit_status, calls, first_stdout>>

\* No except clause of main matches: the exception leaves main.  SystemExit,
\* raised by the sys.exit(0) of lines 141, 145, 150 and 177, is no Exception.
LeaveTry ==
    /\ pc = "except"
    /\ Handler(exc) = "none"
    /\ pc' = "propagate"
    /\ UNCHANGED <<stdin, registryFile, registryFile0, run, input_data,
                   user_prompt, is_task, registry, total_tools, total_caps,
                   exc, raisedIn, stdout, stderr, exit_status, calls,
                   first_stdout>>

\* main() at line 195 is left by an exception: SystemExit ends the process
\* with the status given to sys.exit, which is 0 at every call; any other
\* exception ends it with a traceback on stderr and status 1.
ProcessExit ==
    /\ pc = "propagate"
    /\ pc' = "exited"
    /\ IF exc = "SystemExit"
       THEN exit_status' = <<0>> /\ UNCHANGED stderr
       ELSE exit_status' = <<1>> /\ stderr' = Append(stderr, "Traceback")
    /\ exc' = "none"
    /\ UNCHANGED <<stdin, registryFile, registryFile0, run, input_data,
                   user_prompt, is_task, registry, total_tools, total_caps,
                   raisedIn, stdout, calls, first_stdout>>

\* The host runs the hook again on the same standard input: a fresh process,
\* the filesystem as the first run left it.
Reinvoke ==
    /\ pc = "exited"
    /\ run = "first"
    /\ run' = "second"
    /\ first_stdout' = stdout
    /\ pc' = "start"
    /\ input_data' = Unset
    /\ user_prompt' = Unset
    /\ is_task' = FALSE
    /\ registry' = Unset
    /\ total_tools' = 0
    /\ total_caps' = 0
    /\ exc' = "none"
    /\ raisedIn' = "none"
    /\ stdout' = <<>>
    /\ stderr' = <<>>
    /\ exit_status' = <<>>
    /\ calls' = <<>>
    /\ UNCHANGED <<stdin, registryFile, registryFile0>>

Init ==
    /\ stdin \in StdinInputs
    /\ registryFile \in RegistryFiles
    /\ registryFile0 = registryFile
    /\ run = "first"
    /\ pc = "start"
    /\ input_data = Unset
    /\ user_prompt = Unset
    /\ is_task = FALSE
    /\ registry = Unset
    /\ total_tools = 0
    /\ total_caps = 0
    /\ exc = "none"
    /\ raisedIn = "none"
    /\ stdout = <<>>
    /\ stderr = <<>>
    /\ exit_status = <<>>
    /\ calls = <<>>
    /\ first_stdout = <<>>

Next ==
    \/ ReadInput
    \/ GetUserPrompt
    \/ CheckPrompt
    \/ Classify
    \/ CallLoadRegistry
    \/ CheckRegistry
    \/ BuildCounts
    \/ PrintReminder
    \/ ExitAfterReminder
    \/ HandleJSONDecodeError
    \/ HandleException
    \/ LeaveTry
    \/ ProcessExit
    \/ Reinvoke

Spec == Init /\ [][Next]_vars

-----------------------------------------------------------------------------
(* The classifier on its own: is_task_prompt applied to one prompt.        *)

InitClassifier ==
    /\ user_prompt \in { PyStr(p) : p \in Prompts }
    /\ pc = "call is_task_prompt"
    /\ is_task = FALSE
    /\ stdin = JsonText(PyNone)
    /\ registryFile = <<"missing", "none">>
    /\ registryFile0 = registryFile
    /\ run = "first"
    /\ input_data = Unset
    /\ registry = Unset
    /\ total_tools = 0
    /\ total_caps = 0
    /\ exc = "none"
    /\ raisedIn = "none"
    /\ stdout = <<>>
    /\ stderr = <<>>
    /\ exit_status = <<>>
    /\ calls = <<>>
    /\ first_stdout = <<>>

\* is_task_prompt(prompt), lines 103-129.
CallIsTaskPrompt ==
    /\ pc = "call is_task_prompt"
    /\ is_task' = is_task_prompt(Payload(user_prompt))
    /\ pc' = "is_task_prompt returned"
    /\ calls' = Append(calls, "is_task_prompt")
    /\ UNCHANGED <<stdin, registryFile, registryFile0, run, input_data,
                   user_prompt, registry, total_tools, total_caps, exc,
                   raisedIn, stdout, stderr, exit_status, first_stdout>>

NextClassifier == CallIsTaskPrompt

SpecClassifier == InitClassifier /\ [][NextClassifier]_vars

-----------------------------------------------------------------------------
(* Vocabulary of the properties.                                           *)

InSeq(x, s) == \E i \in 1..Len(s) : s[i] = x

Exited == pc = "exited"

\* The messages the program writes to stderr.
RegistryDiagnostics ==
    { "Smart Router: Registry corrupted",
      "Smart Router: Cannot read registry (permission denied)",
      "Smart Router: Cannot read registry" }

Diagnostics ==
    RegistryDiagnostics
        \cup { "Smart Router: Invalid JSON input", "Smart Router hook error",
               "Traceback" }

\* The line of the reminder that embeds the two counts.
CountsLine(caps, tools) ==
    "- Registry has " \o ToString(caps) \o " capabilities and "
        \o ToString(tools) \o " tools available"

\* t occurs in s as a substring.
OccursIn(t, s) ==
    \E i \in 1..Len(s) :
        /\ i + Len(t) - 1 <= Len(s)
        /\ \A j \in 1..Len(t) : s[i + j - 1] = t[j]

\* The whitespace-delimited tokens of s: the maximal runs without whitespace.
TokensOf(s) ==
    { SubSeq(s, i, j) : <<i, j>> \in
        { ij \in (1..Len(s)) \X (1..Len(s)) :
            /\ ij[1] <= ij[2]
            /\ \A k \in ij[1]..ij[2] : ~IsSpace(s[k])
            /\ (ij[1] = 1 \/ IsSpace(s[ij[1] - 1]))
            /\ (ij[2] = Len(s) \/ IsSpace(s[ij[2] + 1])) } }

HasTrigger(s) == \E k \in 1..Len(TASK_TRIGGERS) : OccursIn(TASK_TRIGGERS[k], s)

HasStrictKeywordToken(s) ==
    \E k \in 1..Len(TASK_KEYWORDS_STRICT) : TASK_KEYWORDS_STRICT[k] \in TokensOf(s)

ClassifierReturned == pc = "is_task_prompt returned"

\* The prompt the request on stdin carries, Unset when stdin is no JSON object.
RequestPrompt ==
    IF stdin[1] = "json" /\ TypeOf(stdin[2]) = "dict"
    THEN dict_get(stdin[2], "user_prompt", PyStr(<<>>))
    ELSE Unset

\* stdin is a JSON object with a non-empty prompt that is_task_prompt accepts.
TaskRequest ==
    /\ TypeOf(RequestPrompt) = "str"
    /\ Len(Payload(RequestPrompt)) > 0
    /\ is_task_prompt(Payload(RequestPrompt))

\* The registry file exists and parses as JSON to a value other than null.
RegistryParses ==
    /\ registryFile[1] = "file"
    /\ registryFile[2][1] = "json"
    /\ registryFile[2][2] # PyNone

\* The document is a non-empty object whose 'capabilities' entry, if it has
\* one, is an object that maps every key to an array, a string or an object.
CountableRegistry(doc) ==
    /\ TypeOf(doc) = "dict"
    /\ DOMAIN Payload(doc) # {}
    /\ "capabilities" \in DOMAIN Payload(doc) =>
          /\ TypeOf(Payload(doc)["capabilities"]) = "dict"
          /\ \A k \in DOMAIN Payload(Payload(doc)["capabilities"]) :
                TypeOf(Payload(Payload(doc)["capabilities"])[k])
                    \in {"list", "str", "dict"}

\* The number of (key, position) pairs of a mapping from keys to sequences.
PairCount(d) ==
    Cardinality({ kv \in (DOMAIN Payload(d)) \X (1..(MaxTools + 2)) :
                    kv[2] <= py_len(Payload(d)[kv[1]]) })

ExampleCapabilities ==
    PyDict([k \in {"fs", "net"} |->
              IF k = "fs" THEN PyList(<<"read", "write">>) ELSE PyList(<<"fetch">>)])

ExampleRegistry == PyDict([k \in {"capabilities"} |-> ExampleCapabilities])

-----------------------------------------------------------------------------
(* The properties.                                                         *)

\* Steps of main that remain, at most, from a position.
Rank(p) ==
    CASE p = "start" -> 12
      [] p = "get_prompt" -> 11
      [] p = "check_prompt" -> 10
      [] p = "classify" -> 9
      [] p = "load_registry" -> 8
      [] p = "check_registry" -> 7
      [] p = "count" -> 6
      [] p = "print" -> 5
      [] p = "printed" -> 4
      [] p = "except" -> 3
      [] p = "propagate" -> 2
      [] OTHER -> 1

\* C1: every run of main terminates with exit status 0: a run that has not
\* ended can take a step, every step brings it closer to the end of the
\* process, no exception other than SystemExit leaves main, and the status
\* of an ended process is 0, whatever stdin and the registry are.
C1_ExitStatusZero ==
    /\ [](/\ Exited => exit_status = <<0>>
          /\ ~Exited => exit_status = <<>> /\ ENABLED Next
          /\ pc = "propagate" => exc = "SystemExit")
    /\ [][Rank(pc') < Rank(pc) \/ (Exited /\ pc' = "start")]_vars

\* C1 witness: a run ended after the catch-all handler took an exception
\* raised while counting a registry whose capability values have no length.
C1_Witness ==
    /\ Exited
    /\ exit_status = <<0>>
    /\ InSeq("Smart Router hook error", stderr)
    /\ TypeOf(registry) = "dict"

\* C2: standard output is empty or holds exactly one reminder block, and
\* every diagnostic is on standard error.
C2_StdoutEmptyOrOneReminder ==
    /\ stdout = <<>> \/ stdout = <<Reminder(total_caps, total_tools)>>
    /\ \A i \in 1..Len(stderr) : stderr[i] \in Diagnostics

\* C2 witness: a run that printed the reminder and ended.
C2_Witness == Exited /\ Len(stdout) = 1 /\ run = "first"

\* C3: is_task_prompt(p) is true exactly when the lower-cased p contains a
\* trigger phrase as a substring or has a strict keyword as a
\* whitespace-delimited token.
C3_ClassifierIff ==
    ClassifierReturned =>
        LET s == str_lower(Payload(user_prompt))
        IN  is_task <=> (HasTrigger(s) \/ HasStrictKeywordToken(s))

\* C3 witness: a prompt accepted for a strict keyword token alone.
C3_Witness ==
    /\ ClassifierReturned
    /\ is_task
    /\ ~HasTrigger(str_lower(Payload(user_prompt)))

\* C4, as claimed: a prompt of one whitespace-free token is accepted only if
\* the token, lower-cased, is an entry of TASK_KEYWORDS_STRICT.
C4_SingleTokenOnlyStrictKeyword ==
    (/\ ClassifierReturned
     /\ Len(Payload(user_prompt)) > 0
     /\ \A i \in 1..Len(Payload(user_prompt)) : ~IsSpace(Payload(user_prompt)[i])
     /\ is_task)
        => InSeq(str_lower(Payload(user_prompt)), TASK_KEYWORDS_STRICT)

\* C5, as claimed: the reminder embeds the number of keys of the registry
\* and the sum of the lengths of the registry's values; for the registry file
\* {"fs": ["read","write"], "net": ["fetch"]} these are 2 and 3.
C5_CountsOverRegistryKeys ==
    stdout # <<>> =>
        /\ (\A k \in DOMAIN Payload(registry) : HasLen(Payload(registry)[k]))
              => stdout[1][6] = CountsLine(py_len(registry), PairCount(registry))
        /\ registry = ExampleCapabilities
              => stdout[1][6] = "- Registry has 2 capabilities and 3 tools available"

\* C5, amended: the reminder embeds the number of keys of the object under
\* the registry's 'capabilities' key (the empty object when the key is
\* missing) and the sum of the lengths of that object's values; for
\* {"capabilities": {"fs": ["read","write"], "net": ["fetch"]}} these are 2
\* and 3, for {"fs": ["read","write"], "net": ["fetch"]} they are 0 and 0.
C5_CountsOverCapabilities ==
    stdout # <<>> =>
        LET capabilities == dict_get(registry, "capabilities", PyDict(<<>>))
        IN  /\ stdout[1][6] =
                 CountsLine(Cardinality(DOMAIN Payload(capabilities)),
                            PairCount(capabilities))
            /\ registry = ExampleRegistry
                  => stdout[1][6] = "- Registry has 2 capabilities and 3 tools available"
            /\ registry = ExampleCapabilities
                  => stdout[1][6] = "- Registry has 0 capabilities and 0 tools available"

\* C5 witness: the reminder printed for the registry file
\* {"capabilities": {"fs": ["read","write"], "net": ["fetch"]}}.
C5_Witness == stdout # <<>> /\ registry = ExampleRegistry

\* C6, as claimed: a run on a task request whose registry file exists and
\* parses as JSON ends with the reminder on stdout and status 0.
C6_ThreeGatesOnly ==
    (Exited /\ TaskRequest /\ RegistryParses)
        => Len(stdout) = 1 /\ exit_status = <<0>>

\* C6, amended: a run ends with the reminder on stdout exactly when stdin is
\* a task request and the registry file parses to a non-empty object whose
\* 'capabilities' entry, if present, is an object of arrays, strings or
\* objects; the run ends with status 0 either way.
C6_ReminderIffCountableRegistry ==
    Exited =>
        /\ exit_status = <<0>>
        /\ stdout # <<>> <=>
              /\ TaskRequest
              /\ RegistryParses
              /\ CountableRegistry(registryFile[2][2])

\* C6 witness: a run that ended with the reminder for a registry that has no
\* 'capabilities' key.
C6_Witness ==
    /\ Exited
    /\ stdout # <<>>
    /\ run = "first"
    /\ "capabilities" \notin DOMAIN Payload(registry)

\* C7, as claimed: on a registry that is absent or unusable (no file,
\* permission denied, I/O error, content that does not parse) load_registry
\* raises nothing, and the run ends with status 0 and empty stdout.
C7_UnusableRegistryYieldsAbsent ==
    (registryFile[1] # "file" \/ registryFile[2][1] # "json") =>
        /\ raisedIn # "load_registry"
        /\ stdout = <<>>
        /\ Exited => exit_status = <<0>>

\* C8: when stdin holds no valid JSON, the run ends with status 0 and empty
\* stdout, the error text is on stderr, and neither is_task_prompt nor
\* load_registry is called.
C8_InvalidJsonSilent ==
    stdin[1] # "json" =>
        /\ stdout = <<>>
        /\ ~InSeq("is_task_prompt", calls)
        /\ ~InSeq("load_registry", calls)
        /\ \A i \in 1..Len(stderr) : stderr[i] \in Diagnostics
        /\ Exited => exit_status = <<0>> /\ stderr # <<>>

\* C8 witness: a run on malformed JSON ended, its message on stderr.
C8_Witness ==
    /\ stdin = MalformedText
    /\ Exited
    /\ stderr = <<"Smart Router: Invalid JSON input">>

C10_RegistryAfterGates ==
    /\ InSeq("load_registry", calls) =>
          /\ calls = <<"json.load", "is_task_prompt", "load_registry">>
          /\ TypeOf(input_data) = "dict"
          /\ Truthy(user_prompt)
          /\ is_task
    /\ ~InSeq("load_registry", calls) =>
          \A i \in 1..Len(stderr) : stderr[i] \notin RegistryDiagnostics
    /\ ~TaskRequest => ~InSeq("load_registry", calls)

\* C10 witness: a run on a prompt that is no task ended without a diagnostic
\* although the registry file is corrupt.
C10_Witness ==
    /\ Exited
    /\ registryFile = <<"file", MalformedText>>
    /\ calls = <<"json.load", "is_task_prompt">>
    /\ stderr = <<>>

=============================================================================
